---- MODULE Spec2Model ----
(***************************************************************************)
(* Model of the ARCH AI MCP tool layer: the LunarCrush client              *)
(* (searchTokens, searchTopics, getTopicDetails, getTopicPosts), the Token *)
(* Terminal client (searchProjects, getProjectMetricAvailability), the     *)
(* Blum local CSV client (searchBlumTokens, searchBlumTokensMultiple) and  *)
(* the tool handlers registered in index.ts.                               *)
(*                                                                         *)
(* JavaScript values are tagged records: a string is a sequence of         *)
(* one-character strings, so that toLowerCase and includes are computed    *)
(* and not assumed.  A JavaScript object is a function from field names    *)
(* to values; a field that is not in the DOMAIN reads as undefined.        *)
(***************************************************************************)
EXTENDS Integers, Sequences, FiniteSets, TLC

VARIABLES
    call,     \* the invocation: operation (or tool) name and its arguments
    remote,   \* what the data sources answer: HTTP responses, CSV files
    pc,       \* control position of the invocation
    tasks,    \* the sub-requests of a fan-out, by position
    log,      \* requests issued and settled, in the order they happened
    outcome   \* what the invocation gave back to its caller, or Pending

vars == <<call, remote, pc, tasks, log, outcome>>

-----------------------------------------------------------------------------
(* Bounds of the model *)

\* longest query string
MaxQueryLen == 1

\* longest remote listing built from the sample records
MaxLen == 2

\* largest whole limit tried, beside the limits around the project cap
MaxLimit == 2

-----------------------------------------------------------------------------
(* JavaScript values *)

Undef == [t |-> "undefined"]

Null == [t |-> "null"]

Num(n) == [t |-> "number", n |-> n]

NaN == [t |-> "NaN"]

Str(s) == [t |-> "string", s |-> s]

IsStr(v) == v.t = "string"

\* o.f : a missing property reads as undefined
Get(o, f) == IF f \in DOMAIN o THEN o[f] ELSE Undef

\* JavaScript truthiness of a value: undefined, null, NaN, 0 and "" are falsy
Truthy(v) ==
    CASE v.t = "undefined" -> FALSE
      [] v.t = "null" -> FALSE
      [] v.t = "NaN" -> FALSE
      [] v.t = "number" -> v.n # 0
      [] v.t = "string" -> v.s # <<>>
      [] OTHER -> TRUE   \* arrays and objects

-----------------------------------------------------------------------------
(* Strings *)

ToLowerChar(c) ==
    CASE c = "A" -> "a"
      [] c = "B" -> "b"
      [] OTHER -> c

\* String.prototype.toLowerCase
ToLowerCase(s) == [i \in 1..Len(s) |-> ToLowerChar(s[i])]

\* String.prototype.includes: q occurs in s as a contiguous substring
Includes(s, q) ==
    \E i \in 0..(Len(s) - Len(q)) : SubSeq(s, i + 1, i + Len(q)) = q

Alphabet == {"a", "A", "b"}

RECURSIVE StringsUpTo(_)
StringsUpTo(n) ==
    IF n = 0 THEN {<<>>}
    ELSE LET shorter == StringsUpTo(n - 1)
         IN  shorter \cup {Append(s, c) : s \in shorter, c \in Alphabet}

Queries == StringsUpTo(MaxQueryLen)

-----------------------------------------------------------------------------
(* Array.prototype.slice(0, end).  A limit is kept in halves (limit = h/2) *)
(* so that the fractional limits z.number() accepts are inputs too.        *)

\* ToIntegerOrInfinity of h/2: truncation toward zero
ToInteger(h) == IF h >= 0 THEN h \div 2 ELSE -((-h) \div 2)

Max(a, b) == IF a >= b THEN a ELSE b

Min(a, b) == IF a <= b THEN a ELSE b

\* index at which slice(0, end) stops, for an array of len elements
SliceEnd(len, h) ==
    LET relEnd == ToInteger(h)
    IN  IF relEnd < 0 THEN Max(len + relEnd, 0) ELSE Min(relEnd, len)

Slice(arr, h) == SubSeq(arr, 1, SliceEnd(Len(arr), h))

-----------------------------------------------------------------------------
(* Outcomes of an async function, Error objects and their messages.  A      *)
(* message is a sequence of text parts, so that a template string is the    *)
(* concatenation of its parts.                                              *)

Pending == [tag |-> "pending"]

Return(v) == [tag |-> "return", value |-> v]

Throw(m) == [tag |-> "throw", message |-> m]

Returned(o) == o.tag = "return"

Threw(o) == o.tag = "throw"

\* `${prefix}: ${errorMessage}` of the catch blocks
Prefixed(prefix, o) ==
    IF Threw(o) THEN Throw(<<prefix, ": ">> \o o.message) ELSE o

-----------------------------------------------------------------------------
(* HTTP: what fetch() and response.json() give *)

\* fetch() rejected: the AbortSignal.timeout fired, or the transport failed
TimedOut == [kind |-> "rejected", message |-> <<"The operation was aborted due to timeout">>]

FetchFailed == [kind |-> "rejected", message |-> <<"fetch failed">>]

Http(status, statusText, body) ==
    [kind |-> "http", status |-> status, statusText |-> statusText, body |-> body]

\* response.ok
Ok(resp) == resp.status >= 200 /\ resp.status <= 299

\* bodies: not JSON at all, the JSON value null, or an object with a data property
InvalidJson == [kind |-> "invalid"]

JsonNull == [kind |-> "null"]

Body(data) == [kind |-> "object", data |-> data]

Array(items) == [t |-> "array", items |-> items]

Object(o) == [t |-> "object", o |-> o]

IsArray(v) == v.t = "array"

\* fetch, the response.ok test and response.json(), up to reading data.data:
\* Return(data.data) or Throw(message of the error raised)
FetchData(resp, api) ==
    IF resp.kind = "rejected" THEN Throw(resp.message)
    ELSE IF ~Ok(resp)
         THEN Throw(<<api, " API error: ", ToString(resp.status), " ", resp.statusText>>)
    ELSE IF resp.body.kind = "invalid"
         THEN Throw(<<"Unexpected token < in JSON at position 0">>)
    ELSE IF resp.body.kind = "null"
         THEN Throw(<<"Cannot read properties of null (reading 'data')">>)
    ELSE Return(resp.body.data)

InvalidFormat(api) == Throw(<<"Invalid response format from ", api, " API">>)

-----------------------------------------------------------------------------
(* The substring filter shared in shape by every search operation *)

\* v?.toLowerCase() raises a TypeError when v is neither nullish nor a string
FieldThrows(v) == v.t \notin {"undefined", "null", "string"}

\* the field compared as it is, not lower-cased
FieldMatchCaseSensitive(v, queryLower) ==
    IF IsStr(v) THEN Includes(v.s, queryLower) ELSE FALSE

\* record.f?.toLowerCase().includes(queryLower): undefined for a nullish
\* field, else whether the lower-cased field contains the lower-cased query
FieldMatch(v, queryLower) ==
    IF IsStr(v) THEN Includes(ToLowerCase(v.s), queryLower) ELSE FALSE

\* the filter callback: every field test is evaluated, then or-ed
Matches(record, fields, queryLower) ==
    \E f \in fields : FieldMatch(Get(record, f), queryLower)

RecordThrows(record, fields) ==
    \E f \in fields : FieldThrows(Get(record, f))

\* arr.filter(callback): throws when the callback throws on some element
FilterBy(arr, fields, queryLower) ==
    IF \E i \in 1..Len(arr) : RecordThrows(arr[i], fields)
    THEN Throw(<<"Cannot read properties: toLowerCase is not a function">>)
    ELSE Return(SelectSeq(arr, LAMBDA r : Matches(r, fields, queryLower)))

\* arr.map(r => ({f: r.f, ...})): the explicit allow-list of output fields
Project(arr, fields) ==
    [i \in 1..Len(arr) |-> [f \in fields |-> Get(arr[i], f)]]

-----------------------------------------------------------------------------
(* LunarCrush client *)

TokenSearchFields == {"symbol", "name", "topic"}

TokenFields == {"id", "symbol", "name", "price", "topic"}

TopicSearchFields == {"topic", "title"}

TopicFields == {"topic", "title", "topic_rank"}

searchTokensTry(resp, query, limit) ==
    LET data == FetchData(resp, "LunarCrush")
    IN  IF Threw(data) THEN data
        ELSE IF ~Truthy(data.value) \/ ~IsArray(data.value)
             THEN InvalidFormat("LunarCrush")
        ELSE LET queryLower == ToLowerCase(query.s)
                 filteredTokens == FilterBy(data.value.items, TokenSearchFields, queryLower)
             IN  IF Threw(filteredTokens) THEN filteredTokens
                 ELSE Return(Project(Slice(filteredTokens.value, limit), TokenFields))

\* a failure is answered with no tokens instead of an error
searchTokensSwallows(resp, query, limit) ==
    LET tokens == searchTokensTry(resp, query, limit)
    IN  IF Threw(tokens) THEN Return(<<>>) ELSE tokens

searchTokens(resp, query, limit) ==
    Prefixed("Error searching LunarCrush tokens", searchTokensTry(resp, query, limit))

searchTopicsTry(resp, query, limit) ==
    LET data == FetchData(resp, "LunarCrush")
    IN  IF Threw(data) THEN data
        ELSE IF ~Truthy(data.value) \/ ~IsArray(data.value)
             THEN InvalidFormat("LunarCrush")
        ELSE LET filteredTopics ==
                     IF Truthy(query)
                     THEN FilterBy(data.value.items, TopicSearchFields, ToLowerCase(query.s))
                     ELSE Return(data.value.items)
             IN  IF Threw(filteredTopics) THEN filteredTopics
                 ELSE Return(Project(Slice(filteredTopics.value, limit), TopicFields))

searchTopics(resp, query, limit) ==
    Prefixed("Error searching LunarCrush topics", searchTopicsTry(resp, query, limit))

getTopicDetailsTry(resp) ==
    LET data == FetchData(resp, "LunarCrush")
    IN  IF Threw(data) THEN data
        ELSE IF ~Truthy(data.value) THEN InvalidFormat("LunarCrush")
        ELSE Return(data.value)

getTopicDetails(resp) ==
    Prefixed("Error fetching LunarCrush topic details", getTopicDetailsTry(resp))

getTopicPostsTry(resp, limit) ==
    LET data == FetchData(resp, "LunarCrush")
    IN  IF Threw(data) THEN data
        ELSE IF ~Truthy(data.value) \/ ~IsArray(data.value)
             THEN InvalidFormat("LunarCrush")
        ELSE Return(Slice(data.value.items, limit))

getTopicPosts(resp, limit) ==
    Prefixed("Error fetching LunarCrush topic posts", getTopicPostsTry(resp, limit))

-----------------------------------------------------------------------------
(* Token Terminal client *)

\* the hard cap of Math.min(limit, 10)
MaxProjectLimit == 10

ProjectSearchFields == {"name", "project_id", "coingecko_id"}

getProjectMetricAvailabilityTry(resp) ==
    LET data == FetchData(resp, "Token Terminal")
    IN  IF Threw(data) THEN data
        ELSE IF ~Truthy(data.value) THEN InvalidFormat("Token Terminal")
        ELSE Return(data.value)

getProjectMetricAvailability(resp) ==
    Prefixed("Error fetching project metric availability",
             getProjectMetricAvailabilityTry(resp))

\* the own enumerable properties of data.data: those of the object, or the
\* indices of an array
Properties(v) ==
    CASE v.t = "object" -> v.o
      [] v.t = "array" -> [k \in {ToString(i - 1) : i \in 1..Len(v.items)} |->
                             LET i == CHOOSE j \in 1..Len(v.items) : ToString(j - 1) = k
                             IN  v.items[i]]
      [] OTHER -> [k \in {} |-> Undef]

\* every property of the metric record is kept
MetricRestKeepsAll(metricAvailability) == Properties(metricAvailability)

\* const { project_id: _pid, name: _name, ...metricRest } = metricAvailability
MetricRest(metricAvailability) ==
    LET props == Properties(metricAvailability)
    IN  [f \in DOMAIN props \ {"project_id", "name"} |-> props[f]]

\* { ...project, ...metricRest }
Spread(project, metricRest) ==
    [f \in DOMAIN project \cup DOMAIN metricRest |->
        IF f \in DOMAIN metricRest THEN metricRest[f] ELSE project[f]]

\* the callback of limitedResults.map: one project and the answer to its
\* metric-availability request
mergeProject(project, metricResp) ==
    LET metricAvailability == getProjectMetricAvailability(metricResp)
    IN  IF Threw(metricAvailability) THEN project
        ELSE Spread(project, MetricRest(metricAvailability.value))

\* Math.min(limit, 10), in halves
actualLimit(limit) == Min(limit, 2 * MaxProjectLimit)

\* searchProjects up to limitedResults: Return(limitedResults) or the error
limitedProjects(resp, query, limit) ==
    LET data == FetchData(resp, "Token Terminal")
    IN  IF Threw(data) THEN data
        ELSE IF ~IsArray(data.value) THEN InvalidFormat("Token Terminal")
        ELSE LET queryLower == ToLowerCase(query.s)
                 filteredProjects == FilterBy(data.value.items, ProjectSearchFields, queryLower)
             IN  IF Threw(filteredProjects) THEN filteredProjects
                 ELSE Return(Slice(filteredProjects.value, actualLimit(limit)))

\* searchProjects, given the answer metricResps[i] to the i-th metric request
searchProjects(resp, query, limit, metricResps) ==
    LET limitedResults == limitedProjects(resp, query, limit)
    IN  Prefixed("Error searching Token Terminal projects",
            IF Threw(limitedResults) THEN limitedResults
            ELSE Return([i \in 1..Len(limitedResults.value) |->
                            mergeProject(limitedResults.value[i], metricResps[i])]))

-----------------------------------------------------------------------------
(* Blum local CSV client *)

BLUM_NETWORKS == <<"solana", "bnb", "ton">>

BlumSearchFields == {"name", "symbol"}

DigitValue(c) ==
    CASE c = "0" -> 0 [] c = "1" -> 1 [] c = "2" -> 2 [] c = "3" -> 3 [] c = "4" -> 4
      [] c = "5" -> 5 [] c = "6" -> 6 [] c = "7" -> 7 [] c = "8" -> 8 [] c = "9" -> 9
      [] OTHER -> -1

\* value of the longest prefix of digits of s, read after the digits acc
RECURSIVE ParseDigits(_, _)
ParseDigits(s, acc) ==
    IF s = <<>> \/ DigitValue(Head(s)) < 0 THEN acc
    ELSE ParseDigits(Tail(s), 10 * acc + DigitValue(Head(s)))

\* parseInt(v, 10): NaN unless the text starts with a digit
parseInt(v) ==
    IF IsStr(v) /\ v.s # <<>> /\ DigitValue(Head(v.s)) >= 0
    THEN Num(ParseDigits(v.s, 0))
    ELSE NaN

NoFile == [exists |-> FALSE]

CsvFile(header, rows) == [exists |-> TRUE, header |-> header, rows |-> rows]

\* csv-parse with columns: true rejects a row whose cell count is not the header's
WellFormed(file) == \A i \in 1..Len(file.rows) : Len(file.rows[i]) = Len(file.header)

\* the record of one row: header names mapped positionally to the cells
CsvRecord(header, row) ==
    [f \in {header[j] : j \in 1..Len(header)} |->
        Str(row[CHOOSE j \in 1..Len(header) :
                    header[j] = f /\ \A k \in (j + 1)..Len(header) : header[k] # f])]

\* { ...record, decimals: parseInt(record.decimals, 10), network: networkName }
BlumToken(record, networkName) ==
    [f \in DOMAIN record \cup {"decimals", "network"} |->
        CASE f = "decimals" -> parseInt(Get(record, "decimals"))
          [] f = "network" -> Str(<<networkName>>)
          [] OTHER -> record[f]]

\* readCsvFile: any failure to read or to parse is logged and gives []
readCsvFile(file, networkName, readFails) ==
    IF readFails \/ ~file.exists \/ ~WellFormed(file) THEN <<>>
    ELSE [i \in 1..Len(file.rows) |->
             BlumToken(CsvRecord(file.header, file.rows[i]), networkName)]

\* a file that cannot be loaded ends the loop over the networks
RECURSIVE readAllUntilFailure(_, _, _)
readAllUntilFailure(k, files, failing) ==
    IF k > Len(BLUM_NETWORKS) THEN <<>>
    ELSE LET n == BLUM_NETWORKS[k]
         IN  IF n \in failing \/ ~files[n].exists \/ ~WellFormed(files[n]) THEN <<>>
             ELSE readCsvFile(files[n], n, FALSE) \o readAllUntilFailure(k + 1, files, failing)

\* readAllCsvFiles: the files of BLUM_NETWORKS, read in that order
RECURSIVE readAllFrom(_, _, _)
readAllFrom(k, files, failing) ==
    IF k > Len(BLUM_NETWORKS) THEN <<>>
    ELSE readCsvFile(files[BLUM_NETWORKS[k]], BLUM_NETWORKS[k], BLUM_NETWORKS[k] \in failing)
             \o readAllFrom(k + 1, files, failing)

readAllCsvFiles(files, failing) == readAllFrom(1, files, failing)

\* network is "" when the argument is not given
searchBlumTokensTry(files, failing, query, network, limit) ==
    LET tokens == IF network # ""
                  THEN readCsvFile(files[network], network, network \in failing)
                  ELSE readAllCsvFiles(files, failing)
        queryLower == ToLowerCase(query.s)
        filteredTokens == FilterBy(tokens, BlumSearchFields, queryLower)
    IN  IF Threw(filteredTokens) THEN filteredTokens
        ELSE Return(Slice(filteredTokens.value, limit))

searchBlumTokens(files, failing, query, network, limit) ==
    Prefixed("Error searching Blum tokens",
             searchBlumTokensTry(files, failing, query, network, limit))

-----------------------------------------------------------------------------
(* Inputs: sample records of each source, listings built from them, the     *)
(* answers a remote source can give, and the limits a caller can pass.      *)

RECURSIVE SeqsUpTo(_, _)
SeqsUpTo(S, n) ==
    IF n = 0 THEN {<<>>}
    ELSE LET shorter == SeqsUpTo(S, n - 1)
         IN  shorter \cup {Append(l, x) : l \in shorter, x \in S}

\* k copies of x
Copies(x, k) == [i \in 1..k |-> x]

TokenPool ==
    { [id |-> Num(1), symbol |-> Str(<<"a", "b">>), name |-> Str(<<"b">>),
       topic |-> Str(<<"a">>), volume |-> Num(5)],
      [id |-> Num(2), symbol |-> Null],
      [id |-> Num(3), symbol |-> Str(<<"B">>), topic |-> Str(<<"b", "B">>)],
      [id |-> Num(4), symbol |-> Str(<<"a">>), name |-> Num(7)] }

TopicPool ==
    { [topic |-> Str(<<"a", "b">>), title |-> Str(<<"A", "B">>), topic_rank |-> Num(1)],
      [topic_rank |-> Num(2), title |-> Null],
      [topic |-> Str(<<"b">>), title |-> Str(<<"B", "b">>), num_posts |-> Num(3)] }

PostPool ==
    { [id |-> Num(1), post_title |-> Str(<<"a">>)],
      [id |-> Num(2), post_title |-> Str(<<"b">>)] }

ProjectPool ==
    { [project_id |-> Str(<<"a">>), name |-> Str(<<"A", "b">>),
       coingecko_id |-> Str(<<"b">>), description |-> Str(<<"p">>)],
      [project_id |-> Str(<<"b">>), name |-> Str(<<"B">>), slug |-> Str(<<"b">>)],
      [slug |-> Str(<<"a">>), coingecko_id |-> Null] }

\* a project that every query over {a, A, b} of length 1 matches
CommonProject ==
    [project_id |-> Str(<<"a", "b">>), name |-> Str(<<"B", "A">>), slug |-> Str(<<"c">>)]

\* answers that carry no listing
FailedResponses ==
    { TimedOut,
      Http(500, "Internal Server Error", Body(Undef)),
      Http(200, "OK", InvalidJson),
      Http(200, "OK", Body(Undef)),
      Http(200, "OK", Body(Object([error |-> Str(<<"a">>)]))) }

Listing(items) == Http(200, "OK", Body(Array(items)))

ListingResponses(pool) ==
    {Listing(l) : l \in SeqsUpTo(pool, MaxLen)} \cup FailedResponses

LongestListing == MaxProjectLimit + 2

\* listings long enough for the cap of searchProjects to decide the length
LongListings ==
    {Listing(Copies(CommonProject, k)) : k \in {MaxProjectLimit, LongestListing}}

MetricPool ==
    { [project_id |-> Str(<<"z">>), name |-> Str(<<"Z">>), symbol |-> Str(<<"S">>),
       description |-> Object([short |-> Str(<<"m">>)])],
      [symbol |-> Str(<<"T">>), slug |-> Str(<<"m">>)] }

MetricResponses ==
    {Http(200, "OK", Body(Object(m))) : m \in MetricPool} \cup
    { TimedOut,
      Http(404, "Not Found", Body(Undef)),
      Http(200, "OK", Body(Null)) }

\* limits in halves: -1.5 .. MaxLimit + 0.5
LimitHalves == (-3)..(2 * MaxLimit + 1)

\* limits around the cap of searchProjects: 9.5 .. 11.5
CapLimitHalves == (2 * MaxProjectLimit - 1)..(2 * MaxProjectLimit + 3)

BlumHeader == <<"token_address", "name", "symbol", "decimals", "logo_uri">>

\* the CSV file of a network, as cells of characters
BlumFile(network) ==
    CASE network = "solana" ->
             CsvFile(BlumHeader,
                 << << <<"s", "1">>, <<"A">>, <<"b">>, <<"9">>, <<>> >>,
                    << <<"s", "2">>, <<"b">>, <<"B", "a">>, <<"6", "x">>, <<"u">> >> >>)
      [] network = "bnb" ->
             CsvFile(BlumHeader,
                 << << <<"b", "1">>, <<"a">>, <<"A">>, <<"x">>, <<>> >> >>)
      [] network = "ton" ->
             CsvFile(BlumHeader,
                 << << <<"t", "1">>, <<"B">>, <<"a">>, <<"1", "8">>, <<"u">> >>,
                    << <<"t", "2">>, <<"a", "b">>, <<"b">>, <<"9">>, <<>> >> >>)

\* the same file with a last row that lacks two cells
CorruptFile(network) ==
    LET file == BlumFile(network)
    IN  CsvFile(file.header, Append(file.rows, << <<"x">>, <<"a">>, <<"b">> >>))

FileStatus == {"ok", "absent", "corrupt", "unreadable"}

\* the files on disk for a status per network
FilesOf(status) ==
    [n \in DOMAIN status |->
        CASE status[n] = "absent" -> NoFile
          [] status[n] = "corrupt" -> CorruptFile(n)
          [] OTHER -> BlumFile(n)]

\* the networks whose readFile call fails
FailingOf(status) == {n \in DOMAIN status : status[n] = "unreadable"}

Networks == {BLUM_NETWORKS[k] : k \in 1..Len(BLUM_NETWORKS)}

-----------------------------------------------------------------------------
(* The client operations, each called once on inputs drawn from the sets    *)
(* above.                                                                   *)

SearchCalls ==
    [op : {"searchTokens"}, query : {Str(q) : q \in Queries}, limit : LimitHalves]
    \cup [op : {"searchTopics"}, query : {Str(q) : q \in Queries} \cup {Undef},
          limit : LimitHalves]
    \cup [op : {"getTopicPosts"}, limit : LimitHalves]
    \cup [op : {"searchProjects"}, query : {Str(q) : q \in Queries},
          limit : LimitHalves \cup CapLimitHalves]
    \cup [op : {"searchBlumTokens"}, query : {Str(q) : q \in Queries},
          network : Networks \cup {""}, limit : LimitHalves]

RemotesOf(op) ==
    CASE op = "searchTokens" -> [listing : ListingResponses(TokenPool)]
      [] op = "searchTopics" -> [listing : ListingResponses(TopicPool)]
      [] op = "getTopicPosts" -> [listing : ListingResponses(PostPool)]
      [] op = "searchProjects" ->
             [listing : ListingResponses(ProjectPool) \cup LongListings,
              metric : MetricResponses]
      [] op = "searchBlumTokens" -> [status : [Networks -> FileStatus]]

InitSearch ==
    /\ call \in SearchCalls
    /\ remote \in RemotesOf(call.op)
    /\ pc = "call"
    /\ tasks = <<>>
    /\ log = <<>>
    /\ outcome = Pending

CallSearchTokens ==
    /\ pc = "call" /\ call.op = "searchTokens"
    /\ outcome' = searchTokens(remote.listing, call.query, call.limit)
    /\ pc' = "done"
    /\ UNCHANGED <<call, remote, tasks, log>>

CallSearchTopics ==
    /\ pc = "call" /\ call.op = "searchTopics"
    /\ outcome' = searchTopics(remote.listing, call.query, call.limit)
    /\ pc' = "done"
    /\ UNCHANGED <<call, remote, tasks, log>>

CallGetTopicPosts ==
    /\ pc = "call" /\ call.op = "getTopicPosts"
    /\ outcome' = getTopicPosts(remote.listing, call.limit)
    /\ pc' = "done"
    /\ UNCHANGED <<call, remote, tasks, log>>

\* every metric-availability request gets the answer remote.metric
CallSearchProjects ==
    /\ pc = "call" /\ call.op = "searchProjects"
    /\ outcome' = searchProjects(remote.listing, call.query, call.limit,
                                 [i \in 1..LongestListing |-> remote.metric])
    /\ pc' = "done"
    /\ UNCHANGED <<call, remote, tasks, log>>

CallSearchBlumTokens ==
    /\ pc = "call" /\ call.op = "searchBlumTokens"
    /\ outcome' = searchBlumTokens(FilesOf(remote.status), FailingOf(remote.status),
                                   call.query, call.network, call.limit)
    /\ pc' = "done"
    /\ UNCHANGED <<call, remote, tasks, log>>

NextSearch ==
    \/ CallSearchTokens
    \/ CallSearchTopics
    \/ CallGetTopicPosts
    \/ CallSearchProjects
    \/ CallSearchBlumTokens

SpecSearch == InitSearch /\ [][NextSearch]_vars

-----------------------------------------------------------------------------
(* Promise.all over the sub-requests of a fan-out.  A task is the promise   *)
(* of one callback: its input, the answer its request got and its outcome.  *)

NoAnswer == [kind |-> "none"]

Task(input) == [input |-> input, resp |-> NoAnswer, outcome |-> Pending]

Event(ev, target, i) == [ev |-> ev, target |-> target, i |-> i]

\* the positions of the tasks in the order in which they settled
SettleOrder(events) ==
    LET settled == SelectSeq(events, LAMBDA e : e.ev = "settled" /\ e.i > 0)
    IN  [k \in 1..Len(settled) |-> settled[k].i]

\* the values are gathered in the order in which the tasks settled
PromiseAllInSettleOrder(ts, order) ==
    IF \E i \in 1..Len(ts) : Threw(ts[i].outcome)
    THEN ts[CHOOSE k \in 1..Len(order) : Threw(ts[order[k]].outcome)].outcome
    ELSE IF \A i \in 1..Len(ts) : Returned(ts[i].outcome)
    THEN Return([k \in 1..Len(ts) |-> ts[order[k]].outcome.value])
    ELSE Pending

\* the join waits for every task before it rejects
PromiseAllWaitsForAll(ts, order) ==
    IF \E i \in 1..Len(ts) : ts[i].outcome = Pending THEN Pending
    ELSE PromiseAllInSettleOrder(ts, [k \in 1..Len(ts) |-> k])

\* the join never settles once a task has rejected
PromiseAllHangsOnRejection(ts, order) ==
    IF \A i \in 1..Len(ts) : Returned(ts[i].outcome)
    THEN Return([i \in 1..Len(ts) |-> ts[i].outcome.value])
    ELSE Pending

\* Promise.all(ts): rejected with the reason of the first task to reject,
\* fulfilled with the values by position once every task is fulfilled
PromiseAll(ts, order) ==
    IF \E i \in 1..Len(ts) : Threw(ts[i].outcome)
    THEN LET first == CHOOSE k \in 1..Len(order) :
                          /\ Threw(ts[order[k]].outcome)
                          /\ \A j \in 1..(k - 1) : ~Threw(ts[order[j]].outcome)
         IN  ts[order[first]].outcome
    ELSE IF \A i \in 1..Len(ts) : Returned(ts[i].outcome)
    THEN Return([i \in 1..Len(ts) |-> ts[i].outcome.value])
    ELSE Pending

-----------------------------------------------------------------------------
(* searchProjects step by step: the listing request, then one metric        *)
(* request per surviving project, all in flight together, settling in any   *)
(* order and joined by Promise.all.                                         *)

\* the callback rejects when the metric request fails
projectTaskNoCatch(project, metricResp) ==
    LET metricAvailability == getProjectMetricAvailability(metricResp)
    IN  IF Threw(metricAvailability) THEN metricAvailability
        ELSE Return(Spread(project, MetricRest(metricAvailability.value)))

\* the promise of the map callback: its try/catch turns a failed metric
\* request into the bare project, so it is always fulfilled
projectTask(project, metricResp) == Return(mergeProject(project, metricResp))

InitProjects ==
    /\ call \in [op : {"searchProjects"}, query : {Str(q) : q \in Queries},
                 limit : LimitHalves]
    /\ remote \in [listing : ListingResponses(ProjectPool)]
    /\ pc = "start"
    /\ tasks = <<>>
    /\ log = <<>>
    /\ outcome = Pending

\* fetch("https://api.tokenterminal.com/v2/projects")
RequestListing ==
    /\ pc = "start"
    /\ log' = Append(log, Event("request", "listing", 0))
    /\ pc' = "listing"
    /\ UNCHANGED <<call, remote, tasks, outcome>>

\* the listing request settles; the projects are filtered and cut, and the
\* metric request of every surviving project is issued before any is awaited
ListingSettles ==
    /\ pc = "listing"
    /\ LET limitedResults == limitedProjects(remote.listing, call.query, call.limit)
           issued == IF Threw(limitedResults) THEN <<>>
                     ELSE [i \in 1..Len(limitedResults.value) |->
                              Task(limitedResults.value[i])]
       IN  /\ tasks' = issued
           /\ log' = Append(log, Event("settled", "listing", 0))
                       \o [i \in 1..Len(issued) |-> Event("request", "metric", i)]
           /\ outcome' =
                  IF Threw(limitedResults)
                  THEN Prefixed("Error searching Token Terminal projects", limitedResults)
                  ELSE PromiseAll(issued, <<>>)
           /\ pc' = IF outcome' = Pending THEN "lookups" ELSE "done"
    /\ UNCHANGED <<call, remote>>

\* the metric request of the i-th project settles with some answer; the
\* search returns as soon as Promise.all is settled
LookupSettles(i, metricResp) ==
    /\ pc = "lookups"
    /\ tasks[i].outcome = Pending
    /\ tasks' = [tasks EXCEPT ![i].resp = metricResp,
                              ![i].outcome = projectTask(tasks[i].input, metricResp)]
    /\ log' = Append(log, Event("settled", "metric", i))
    /\ outcome' = Prefixed("Error searching Token Terminal projects",
                           PromiseAll(tasks', SettleOrder(log')))
    /\ pc' = IF outcome' = Pending THEN "lookups" ELSE "done"
    /\ UNCHANGED <<call, remote>>

NextProjects ==
    \/ RequestListing
    \/ ListingSettles
    \/ \E i \in 1..Len(tasks), metricResp \in MetricResponses :
           LookupSettles(i, metricResp)

SpecProjects == InitProjects /\ [][NextProjects]_vars

-----------------------------------------------------------------------------
(* searchBlumTokensMultiple step by step: one searchBlumTokens per query,   *)
(* all started together and joined by Promise.all.  Each search reads the   *)
(* files on its own, so a read can fail for one query and not for another.  *)

\* queries.slice(0, 5)
MaxBatchQueries == 5

\* longest list of queries built from BatchQueries
MaxBatch == 2

BatchQueries == {Str(<<>>), Str(<<"a">>), Str(<<"B">>)}

\* k queries, going round <<"", "a", "B">>
QueryRound(k) ==
    [i \in 1..k |-> CASE i % 3 = 1 -> Str(<<>>) [] i % 3 = 2 -> Str(<<"a">>)
                      [] OTHER -> Str(<<"B">>)]

AllFilesOk == [n \in Networks |-> "ok"]

\* the read failures one search can meet
ReadFailures(network) ==
    IF network = "" THEN {{}, {"bnb"}, Networks} ELSE {{}, {network}}

\* the entry of one query: the callback's try/catch around searchBlumTokens
batchEntry(query, found) ==
    IF Returned(found)
    THEN [query |-> query, tokens |-> found.value, success |-> TRUE]
    ELSE [query |-> query, tokens |-> <<>>, success |-> FALSE, error |-> found.message]

InitBatch ==
    /\ call \in [op : {"searchBlumTokensMultiple"}, queries : SeqsUpTo(BatchQueries, MaxBatch),
                 network : Networks \cup {""}, limit : LimitHalves]
               \cup [op : {"searchBlumTokensMultiple"},
                     queries : {QueryRound(MaxBatchQueries), QueryRound(MaxBatchQueries + 1)},
                     network : {"ton"}, limit : {2 * MaxLimit}]
    /\ remote = [status |-> AllFilesOk]
    /\ pc = "start"
    /\ tasks = <<>>
    /\ log = <<>>
    /\ outcome = Pending

\* limitedQueries.map(...): every search is started before any is awaited
StartBatch ==
    /\ pc = "start"
    /\ LET limitedQueries == Slice(call.queries, 2 * MaxBatchQueries)
           started == [i \in 1..Len(limitedQueries) |-> Task(limitedQueries[i])]
       IN  /\ tasks' = started
           /\ log' = log \o [i \in 1..Len(started) |-> Event("request", "search", i)]
           /\ outcome' = Prefixed("Error processing multiple Blum token queries",
                                  PromiseAll(started, <<>>))
           /\ pc' = IF outcome' = Pending THEN "searches" ELSE "done"
    /\ UNCHANGED <<call, remote>>

\* the search of the i-th query settles, the reads of `failing` having failed
SearchSettles(i, failing) ==
    /\ pc = "searches"
    /\ tasks[i].outcome = Pending
    /\ LET found == searchBlumTokens(FilesOf(remote.status), failing, tasks[i].input,
                                     call.network, call.limit)
       IN  tasks' = [tasks EXCEPT ![i].resp = [kind |-> "reads", failing |-> failing],
                                  ![i].outcome = Return(batchEntry(tasks[i].input, found))]
    /\ log' = Append(log, Event("settled", "search", i))
    /\ outcome' = Prefixed("Error processing multiple Blum token queries",
                           PromiseAll(tasks', SettleOrder(log')))
    /\ pc' = IF outcome' = Pending THEN "searches" ELSE "done"
    /\ UNCHANGED <<call, remote>>

NextBatch ==
    \/ StartBatch
    \/ \E i \in 1..Len(tasks), failing \in ReadFailures(call.network) :
           SearchSettles(i, failing)

SpecBatch == InitBatch /\ [][NextBatch]_vars

-----------------------------------------------------------------------------
(* The requests of one searchProjects call, on listings short and long.     *)
(* Every lookup of a call gets the same answer and the lookups settle in    *)
(* the order of their projects: the requests issued depend on neither.      *)

InitRequests ==
    /\ call \in [op : {"searchProjects"}, query : {Str(q) : q \in Queries},
                 limit : LimitHalves \cup CapLimitHalves]
    /\ remote \in [listing : ListingResponses(ProjectPool) \cup LongListings,
                   metric : MetricResponses]
    /\ pc = "start"
    /\ tasks = <<>>
    /\ log = <<>>
    /\ outcome = Pending

NextRequests ==
    \/ RequestListing
    \/ ListingSettles
    \/ \E i \in 1..Len(tasks) :
           /\ \A j \in 1..(i - 1) : tasks[j].outcome # Pending
           /\ LookupSettles(i, remote.metric)

SpecRequests == InitRequests /\ [][NextRequests]_vars

-----------------------------------------------------------------------------
(* The tool handlers of index.ts.  A handler applies the default of its     *)
(* limit, starts its client call(s), awaits them and wraps what it got in   *)
(* a response envelope; a sub-search it no longer awaits still runs to its  *)
(* end.                                                                     *)

Tools == {"lunarCrushTokensSearch", "lunarCrushTopicsSearch", "lunarCrushGeneralSearch",
          "lunarCrushTopicDetails", "lunarCrushTopicPosts", "tokenTerminalTokensSearch"}

\* the token search tool also starts a topic search
ToolClientsAlsoTopics(tool) ==
    CASE tool = "lunarCrushTokensSearch" -> <<"searchTokens", "searchTopics">>
      [] tool = "lunarCrushTopicsSearch" -> <<"searchTopics">>
      [] tool = "lunarCrushGeneralSearch" -> <<"searchTokens", "searchTopics">>
      [] tool = "lunarCrushTopicDetails" -> <<"getTopicDetails">>
      [] tool = "lunarCrushTopicPosts" -> <<"getTopicPosts">>
      [] tool = "tokenTerminalTokensSearch" -> <<"searchProjects">>

\* the client functions a handler calls, in the order of the calls
ToolClients(tool) ==
    CASE tool = "lunarCrushTokensSearch" -> <<"searchTokens">>
      [] tool = "lunarCrushTopicsSearch" -> <<"searchTopics">>
      [] tool = "lunarCrushGeneralSearch" -> <<"searchTokens", "searchTopics">>
      [] tool = "lunarCrushTopicDetails" -> <<"getTopicDetails">>
      [] tool = "lunarCrushTopicPosts" -> <<"getTopicPosts">>
      [] tool = "tokenTerminalTokensSearch" -> <<"searchProjects">>

\* the default of the handler's limit parameter, in halves
DefaultLimit(tool) ==
    IF tool \in {"lunarCrushGeneralSearch", "tokenTerminalTokensSearch"} THEN 10 ELSE 20

\* `${ErrorPrefix}: ${errorMessage}` of the handler's catch block
ErrorPrefix(tool) ==
    CASE tool = "lunarCrushTokensSearch" -> "Error searching LunarCrush tokens"
      [] tool = "lunarCrushTopicsSearch" -> "Error searching LunarCrush topics"
      [] tool = "lunarCrushGeneralSearch" -> "Error performing general LunarCrush search"
      [] tool = "lunarCrushTopicDetails" -> "Error fetching LunarCrush topic details"
      [] tool = "lunarCrushTopicPosts" -> "Error fetching LunarCrush topic posts"
      [] tool = "tokenTerminalTokensSearch" -> "Error searching Token Terminal projects"

\* JSON.stringify of one record: a property whose value is undefined is
\* left out, NaN is written as null
JsonOfRecord(record) ==
    [f \in {g \in DOMAIN record : record[g] # Undef} |->
        IF record[f] = NaN THEN Null ELSE record[f]]

\* JSON.stringify of an array of records
JsonOfRecords(records) == [array |-> [i \in 1..Len(records) |-> JsonOfRecord(records[i])]]

\* JSON.stringify of the data payload that getTopicDetails hands on
JsonOfValue(v) ==
    CASE v.t = "object" -> [object |-> JsonOfRecord(v.o)]
      [] v.t = "array" -> [array |-> v.items]
      [] OTHER -> [scalar |-> v]

\* the text of a successful response: JSON.stringify(tokens), or
\* JSON.stringify({ tokens, topics }) for the general search
SuccessText(tool, values) ==
    CASE tool = "lunarCrushGeneralSearch" ->
             [kind |-> "json", value |-> [tokens |-> JsonOfRecords(values[1]),
                                          topics |-> JsonOfRecords(values[2])]]
      [] tool = "lunarCrushTopicDetails" ->
             [kind |-> "json", value |-> JsonOfValue(values[1])]
      [] OTHER -> [kind |-> "json", value |-> JsonOfRecords(values[1])]

ErrorText(tool, message) ==
    [kind |-> "error", parts |-> <<ErrorPrefix(tool), ": ">> \o message]

Envelope(text) == [content |-> <<[type |-> "text", text |-> text]>>]

\* the error of the client call reaches the caller of the handler
toolResponseRethrows(tool, joined) ==
    IF joined = Pending THEN Pending
    ELSE IF Returned(joined) THEN Return(Envelope(SuccessText(tool, joined.value)))
    ELSE joined

\* the try/catch of a handler around its awaited client call(s)
toolResponse(tool, joined) ==
    IF joined = Pending THEN Pending
    ELSE IF Returned(joined) THEN Return(Envelope(SuccessText(tool, joined.value)))
    ELSE Return(Envelope(ErrorText(tool, joined.message)))

\* listings of at most one record, and the failures
ShortListings(pool) == {Listing(l) : l \in SeqsUpTo(pool, 1)} \cup FailedResponses

\* what the endpoints of a client function can answer
ClientAnswers(client) ==
    CASE client = "searchTokens" -> [listing : ShortListings(TokenPool)]
      [] client = "searchTopics" -> [listing : ShortListings(TopicPool)]
      [] client = "getTopicPosts" -> [listing : ShortListings(PostPool)]
      [] client = "getTopicDetails" ->
             [listing : {Http(200, "OK", Body(Object(t))) : t \in TopicPool}
                            \cup FailedResponses]
      [] client = "searchProjects" ->
             [listing : ShortListings(ProjectPool), metric : MetricResponses]

\* the client function run on the answer of its endpoint(s)
clientOutcome(client, answer, query, limit) ==
    CASE client = "searchTokens" -> searchTokens(answer.listing, query, limit)
      [] client = "searchTopics" -> searchTopics(answer.listing, query, limit)
      [] client = "getTopicPosts" -> getTopicPosts(answer.listing, limit)
      [] client = "getTopicDetails" -> getTopicDetails(answer.listing)
      [] client = "searchProjects" ->
             searchProjects(answer.listing, query, limit,
                            [i \in 1..LongestListing |-> answer.metric])

\* limit is optional in every schema; tokenTerminal's is at most 10
ToolLimits ==
    [given : {FALSE}, value : {0}] \cup [given : {TRUE}, value : {-2, 1, 2 * MaxLimit}]

ToolCalls ==
    [tool : {"lunarCrushTokensSearch", "lunarCrushGeneralSearch", "tokenTerminalTokensSearch"},
     query : {Str(q) : q \in Queries}, limit : ToolLimits]
    \cup [tool : {"lunarCrushTopicsSearch"},
          query : {Str(q) : q \in Queries} \cup {Undef}, limit : ToolLimits]
    \cup [tool : {"lunarCrushTopicPosts"}, query : {Undef}, limit : ToolLimits]
    \cup [tool : {"lunarCrushTopicDetails"}, query : {Undef},
          limit : [given : {FALSE}, value : {0}]]

\* the limit the handler passes on: ({ query, limit = 10 }) => ...
limitOf(c) == IF c.limit.given THEN c.limit.value ELSE DefaultLimit(c.tool)

InitTools ==
    /\ call \in ToolCalls
    /\ remote = [status |-> AllFilesOk]
    /\ pc = "start"
    /\ tasks = <<>>
    /\ log = <<>>
    /\ outcome = Pending

\* the handler runs up to its await: every client call it makes is started
InvokeTool ==
    /\ pc = "start"
    /\ LET clients == ToolClients(call.tool)
       IN  /\ tasks' = [i \in 1..Len(clients) |-> Task(clients[i])]
           /\ log' = log \o [i \in 1..Len(clients) |-> Event("request", clients[i], i)]
    /\ pc' = "awaiting"
    /\ UNCHANGED <<call, remote, outcome>>

\* the i-th client call settles on some answer of its endpoint; a handler
\* that is still awaiting responds as soon as its await is settled
ClientSettles(i, answer) ==
    /\ pc \in {"awaiting", "responded"}
    /\ tasks[i].outcome = Pending
    /\ tasks' = [tasks EXCEPT ![i].resp = answer,
                              ![i].outcome = clientOutcome(tasks[i].input, answer,
                                                           call.query, limitOf(call))]
    /\ log' = Append(log, Event("settled", tasks[i].input, i))
    /\ outcome' = IF pc = "responded" THEN outcome
                  ELSE toolResponse(call.tool, PromiseAll(tasks', SettleOrder(log')))
    /\ pc' = IF outcome' = Pending THEN "awaiting" ELSE "responded"
    /\ UNCHANGED <<call, remote>>

NextTools ==
    \/ InvokeTool
    \/ \E i \in 1..Len(tasks) : \E answer \in ClientAnswers(tasks[i].input) :
           ClientSettles(i, answer)

SpecTools == InitTools /\ [][NextTools]_vars

-----------------------------------------------------------------------------
(* Progress.  A dispatched handler runs, and every request that is in       *)
(* flight settles: fetch is given AbortSignal.timeout(timeout), so it ends  *)
(* in a response or in a rejection.  The calls are those of the tool        *)
(* handlers and those of searchProjects step by step.                       *)

ToolDispatched == "tool" \in DOMAIN call

SearchDispatched == "op" \in DOMAIN call

\* the requests that can be in flight together
InFlight == 1..Max(2, MaxLen)

\* the i-th request in flight gets a response or hits its timeout
RequestSettles(i) ==
    /\ i \in 1..Len(tasks)
    /\ \/ /\ ToolDispatched
          /\ \E answer \in ClientAnswers(tasks[i].input) : ClientSettles(i, answer)
       \/ /\ SearchDispatched
          /\ \E metricResp \in MetricResponses : LookupSettles(i, metricResp)

InitLive == InitTools \/ InitProjects

NextLive ==
    \/ ToolDispatched /\ InvokeTool
    \/ SearchDispatched /\ RequestListing
    \/ SearchDispatched /\ ListingSettles
    \/ \E i \in InFlight : RequestSettles(i)

SpecLive ==
    /\ InitLive /\ [][NextLive]_vars
    /\ WF_vars(ToolDispatched /\ InvokeTool)
    /\ WF_vars(SearchDispatched /\ RequestListing)
    /\ WF_vars(SearchDispatched /\ ListingSettles)
    /\ \A i \in InFlight : WF_vars(RequestSettles(i))

-----------------------------------------------------------------------------
(* Properties of the client operations (SpecSearch).  The definitions here  *)
(* restate what a search should give from the inputs alone, without the     *)
(* operators of the clients.                                                *)

SearchDone == pc = "done" /\ call.op \in {"searchTokens", "searchTopics",
                  "getTopicPosts", "searchProjects", "searchBlumTokens"}

\* the remote answered with a listing
HasListing ==
    /\ "listing" \in DOMAIN remote
    /\ remote.listing.kind = "http"
    /\ Ok(remote.listing)
    /\ remote.listing.body.kind = "object"
    /\ IsArray(remote.listing.body.data)

SearchedFields(op) ==
    CASE op = "searchTokens" -> {"symbol", "name", "topic"}
      [] op = "searchTopics" -> {"topic", "title"}
      [] op = "searchProjects" -> {"name", "project_id", "coingecko_id"}
      [] op = "searchBlumTokens" -> {"name", "symbol"}
      [] OTHER -> {}

\* the fields by which a returned record is recognised as a source record
KeyFields(op) ==
    CASE op = "searchProjects" -> {"project_id", "name"}
      [] op = "searchBlumTokens" -> {"token_address", "name", "symbol", "network"}
      [] op = "getTopicPosts" -> {"id", "post_title"}
      [] OTHER -> SearchedFields(op)

View(record, fields) == [f \in fields |-> Get(record, f)]

Views(records, fields) == [i \in 1..Len(records) |-> View(records[i], fields)]

IsPrefix(s, t) == Len(s) <= Len(t) /\ SubSeq(t, 1, Len(s)) = s

\* the rows of a network's file as records, when the file can be loaded
RowsOf(network) ==
    IF remote.status[network] # "ok" THEN <<>>
    ELSE LET rows == BlumFile(network).rows
         IN  [i \in 1..Len(rows) |->
                 [token_address |-> Str(rows[i][1]), name |-> Str(rows[i][2]),
                  symbol |-> Str(rows[i][3]), network |-> Str(<<network>>)]]

\* the records a search runs over, in source order
Dataset ==
    IF call.op = "searchBlumTokens"
    THEN IF call.network # "" THEN RowsOf(call.network)
         ELSE RowsOf("solana") \o RowsOf("bnb") \o RowsOf("ton")
    ELSE IF HasListing THEN remote.listing.body.data.items ELSE <<>>

\* the lower-cased query is a substring of the lower-cased value of a searched field
QueryInSomeField(record, fields, q) ==
    \E f \in fields :
        /\ f \in DOMAIN record
        /\ record[f].t = "string"
        /\ Includes(ToLowerCase(record[f].s), ToLowerCase(q))

\* every searched field of every record is a string, null or missing
Searchable(records, fields) ==
    \A i \in 1..Len(records) : \A f \in fields :
        Get(records[i], f).t \in {"string", "null", "undefined"}

ResultLen == Len(outcome.value)

\* C1: every search returns at most `limit` items, and searchProjects at most
\* min(limit, 10) items, for every numeric limit (limits are kept in halves;
\* an empty result counts as within any limit)
C1_AtMostLimit ==
    (SearchDone /\ Returned(outcome) /\ ResultLen > 0) =>
        /\ 2 * ResultLen <= call.limit
        /\ call.op = "searchProjects" => ResultLen <= MaxProjectLimit

MultiNetworkDone ==
    SearchDone /\ call.op = "searchBlumTokens" /\ call.network = ""

\* the tokens of the loadable networks that match the query, in the order
\* solana, bnb, ton
MatchingRows ==
    SelectSeq(RowsOf("solana") \o RowsOf("bnb") \o RowsOf("ton"),
              LAMBDA r : QueryInSomeField(r, {"name", "symbol"}, call.query.s))

\* C5 as stated: with any subset of the network files absent or unreadable the
\* multi-network search throws nothing and returns exactly the matching tokens
\* of the remaining networks, in network order, each tagged with its network
\* (stated for limits >= 0)
C5_ExactlyMatching ==
    (MultiNetworkDone /\ call.limit >= 0) =>
        /\ Returned(outcome)
        /\ Views(outcome.value, KeyFields("searchBlumTokens")) = MatchingRows

\* C5 amended: ... returns the matching tokens of the remaining networks cut
\* to `limit`: a prefix of them, and all of them when limit is at least their
\* number
C5_MatchingUpToLimit ==
    MultiNetworkDone =>
        /\ Returned(outcome)
        /\ IsPrefix(Views(outcome.value, KeyFields("searchBlumTokens")), MatchingRows)
        /\ 2 * Len(MatchingRows) <= call.limit => ResultLen = Len(MatchingRows)

\* a network is missing, another is unreadable, and tokens of a third are returned
C5_Witness ==
    /\ MultiNetworkDone
    /\ \E n \in Networks : remote.status[n] = "absent"
    /\ \E n \in Networks : remote.status[n] \in {"unreadable", "corrupt"}
    /\ Returned(outcome) /\ ResultLen > 0
    /\ ResultLen = Len(MatchingRows)

EmptyQueryDone ==
    /\ SearchDone
    /\ call.op \in {"searchTokens", "searchTopics", "searchProjects", "searchBlumTokens"}
    /\ call.query = Str(<<>>)
    /\ call.op # "searchBlumTokens" => HasListing

\* C6: an empty query matches every record, also one whose searched fields are
\* missing or null: the result is the first `limit` records in source order
\* (stated for limits >= 0 and records whose searched fields are strings,
\* null or missing)
C6_EmptyQueryMatchesAll ==
    (EmptyQueryDone /\ call.limit >= 0 /\ Searchable(Dataset, SearchedFields(call.op))) =>
        /\ Returned(outcome)
        /\ Views(outcome.value, KeyFields(call.op))
             = Views(SubSeq(Dataset, 1, Min(Len(Dataset), call.limit \div 2)),
                     KeyFields(call.op))

FilterDone ==
    /\ SearchDone
    /\ call.op \in {"searchTokens", "searchTopics", "searchProjects", "searchBlumTokens"}
    /\ call.query.t = "string"

\* the records of the dataset that contain the query in a searched field
RecordsWithQuery ==
    SelectSeq(Dataset, LAMBDA r : QueryInSomeField(r, SearchedFields(call.op), call.query.s))

\* the result is `expected` cut to the limit
CutOf(expected) ==
    /\ IsPrefix(Views(outcome.value, KeyFields(call.op)), Views(expected, KeyFields(call.op)))
    /\ 2 * Len(expected) <= call.limit => ResultLen = Len(expected)

\* the outcome of the operation of this call on the same inputs with query q
OutcomeFor(q) ==
    CASE call.op = "searchTokens" -> searchTokens(remote.listing, Str(q), call.limit)
      [] call.op = "searchTopics" -> searchTopics(remote.listing, Str(q), call.limit)
      [] call.op = "searchProjects" ->
             searchProjects(remote.listing, Str(q), call.limit,
                            [i \in 1..LongestListing |-> remote.metric])
      [] call.op = "searchBlumTokens" ->
             searchBlumTokens(FilesOf(remote.status), FailingOf(remote.status),
                              Str(q), call.network, call.limit)

SameUpToCase(q) == ToLowerCase(q) = ToLowerCase(call.query.s)

-----------------------------------------------------------------------------
(* Properties of searchProjects step by step (SpecProjects) *)

\* the metric-availability request got no usable answer: a timeout, a
\* non-success status, or a body without a data payload
LookupFailed(resp) ==
    \/ resp.kind = "rejected"
    \/ ~Ok(resp)
    \/ resp.body.kind # "object"
    \/ resp.body.data.t \in {"undefined", "null"}

\* the filtered and truncated projects of the listing
Survivors == Slice(RecordsWithQuery, Min(call.limit, 2 * MaxProjectLimit))

\* the search got its listing and every lookup has settled
LookupsDone ==
    /\ pc = "done" /\ call.op = "searchProjects"
    /\ HasListing /\ Searchable(Dataset, SearchedFields("searchProjects"))

\* the Project Record overlaid with the metric fields other than the two
\* identifying ones
MergedRecord(project, metric) ==
    LET added == DOMAIN metric \ {"project_id", "name"}
    IN  [f \in DOMAIN project \cup added |->
            IF f \in added THEN metric[f] ELSE project[f]]

ExpectedRecord(project, resp) ==
    IF LookupFailed(resp) THEN project
    ELSE MergedRecord(project, resp.body.data.o)

\* C2: whatever subset of the lookups fails, the search succeeds with one
\* record per surviving project: the bare Project Record where the lookup
\* failed, the merged record elsewhere
C2_LookupFailureDegrades ==
    LookupsDone =>
        /\ Returned(outcome)
        /\ ResultLen = Len(Survivors)
        /\ \A i \in 1..Len(Survivors) :
               /\ LookupFailed(tasks[i].resp) => outcome.value[i] = Survivors[i]
               /\ ~LookupFailed(tasks[i].resp) =>
                      outcome.value[i] = MergedRecord(Survivors[i], tasks[i].resp.body.data.o)

\* one lookup failed and another succeeded, and the merged record differs
\* from the bare one
C2_Witness ==
    /\ LookupsDone /\ Returned(outcome) /\ ResultLen >= 2
    /\ \E i, j \in 1..ResultLen :
           /\ LookupFailed(tasks[i].resp) /\ ~LookupFailed(tasks[j].resp)
           /\ outcome.value[j] # tasks[j].input

\* C8: after a successful lookup the merged record has the project_id and
\* name of the Project Record whatever the metric record carries for them,
\* every other field of the metric record, and every Project Record field
\* the metric record does not define
C8_MergedFields ==
    LookupsDone =>
        /\ Returned(outcome) /\ ResultLen = Len(tasks)
        /\ \A i \in 1..Len(tasks) : ~LookupFailed(tasks[i].resp) =>
               LET merged == outcome.value[i]
                   project == tasks[i].input
                   metric == tasks[i].resp.body.data.o
               IN  /\ \A f \in {"project_id", "name"} :
                          /\ f \in DOMAIN merged <=> f \in DOMAIN project
                          /\ Get(merged, f) = Get(project, f)
                   /\ \A f \in DOMAIN metric \ {"project_id", "name"} :
                          f \in DOMAIN merged /\ merged[f] = metric[f]
                   /\ \A f \in DOMAIN project \ DOMAIN metric :
                          f \in DOMAIN merged /\ merged[f] = project[f]

\* a lookup succeeded with a metric record that names another project_id and
\* name, overrides one project field and leaves another one alone
C8_Witness ==
    /\ LookupsDone /\ Returned(outcome)
    /\ \E i \in 1..ResultLen :
           /\ ~LookupFailed(tasks[i].resp)
           /\ LET project == tasks[i].input
                  metric == tasks[i].resp.body.data.o
              IN  /\ {"project_id", "name"} \subseteq DOMAIN metric \cap DOMAIN project
                  /\ metric.project_id # project.project_id
                  /\ metric.name # project.name
                  /\ \E f \in DOMAIN metric \cap DOMAIN project :
                         f \notin {"project_id", "name"} /\ metric[f] # project[f]
                  /\ \E f \in DOMAIN project : f \notin DOMAIN metric

MetricEvents(ev) == {k \in 1..Len(log) : log[k].target = "metric" /\ log[k].ev = ev}

\* C9: the metric lookups are in flight together (each is requested before
\* any of them settles), and in every interleaving of their settling the
\* i-th record of the result is the one of the i-th surviving project
C9_OrderOfSurvivors ==
    /\ \A r \in MetricEvents("request"), d \in MetricEvents("settled") : r < d
    /\ pc = "lookups" => Cardinality(MetricEvents("request")) = Len(tasks)
    /\ LookupsDone =>
           /\ Returned(outcome)
           /\ ResultLen = Len(Survivors)
           /\ \A i \in 1..Len(Survivors) :
                  outcome.value[i] = ExpectedRecord(Survivors[i], tasks[i].resp)

\* two lookups were in flight, the second settled first, and their records differ
C9_Witness ==
    /\ LookupsDone /\ Returned(outcome) /\ ResultLen = 2
    /\ SettleOrder(log) = <<2, 1>>
    /\ outcome.value[1] # outcome.value[2]
    /\ LookupFailed(tasks[2].resp) /\ ~LookupFailed(tasks[1].resp)

-----------------------------------------------------------------------------
(* Properties of searchBlumTokensMultiple (SpecBatch) *)

BatchDone == pc = "done" /\ call.op = "searchBlumTokensMultiple"

\* the search of the i-th query could read none of the files it needed
Faulted(i) ==
    (IF call.network = "" THEN Networks ELSE {call.network}) \subseteq tasks[i].resp.failing

\* the tokens the query finds when every file is read
OwnTokens(query) ==
    LET rows == IF call.network # "" THEN BlumFile(call.network).rows
                ELSE BlumFile("solana").rows \o BlumFile("bnb").rows \o BlumFile("ton").rows
        names == [i \in 1..Len(rows) |-> [name |-> Str(rows[i][2]), symbol |-> Str(rows[i][3])]]
    IN  Slice(SelectSeq(names, LAMBDA r : QueryInSomeField(r, {"name", "symbol"}, query.s)),
              call.limit)

\* C3: in a batch of at most 5 queries where a query meets a data-source
\* fault, there is one entry per query, the entry of a faulting query has
\* success = false and a non-empty error, and every other entry has
\* success = true and its own token list
C3_BatchIsolation ==
    (BatchDone /\ Len(call.queries) <= MaxBatchQueries) =>
        /\ Returned(outcome)
        /\ ResultLen = Len(call.queries)
        /\ \A i \in 1..Len(call.queries) :
               LET entry == outcome.value[i]
               IN  /\ entry.query = call.queries[i]
                   /\ Faulted(i) =>
                          /\ ~entry.success
                          /\ "error" \in DOMAIN entry /\ entry.error # <<>>
                   /\ ~Faulted(i) =>
                          /\ entry.success
                          /\ Views(entry.tokens, {"name", "symbol"}) = OwnTokens(call.queries[i])

-----------------------------------------------------------------------------
(* Properties of the tool handlers (SpecTools) *)

ToolInvoked == "tool" \in DOMAIN call /\ pc # "start"

SomeClientThrew == \E i \in 1..Len(tasks) : Threw(tasks[i].outcome)

AllClientsReturned == \A i \in 1..Len(tasks) : Returned(tasks[i].outcome)

ErrorPhrases ==
    {"Error searching LunarCrush tokens", "Error searching LunarCrush topics",
     "Error performing general LunarCrush search", "Error fetching LunarCrush topic details",
     "Error fetching LunarCrush topic posts", "Error searching Token Terminal projects"}

\* the one text item of the response
ResponseText == outcome.value.content[1].text

IsEnvelope(o) ==
    /\ Returned(o)
    /\ DOMAIN o.value = {"content"}
    /\ Len(o.value.content) = 1
    /\ o.value.content[1].type = "text"

\* C4: whatever its client call(s) end in, a handler returns and never
\* throws: an envelope with one text item, the JSON of the client result on
\* success and "Error <doing-X>: <message>" on failure
C4_AlwaysAnEnvelope ==
    ToolInvoked =>
        /\ outcome # Pending => IsEnvelope(outcome)
        /\ (SomeClientThrew \/ AllClientsReturned) => outcome # Pending
        /\ (outcome # Pending /\ ~SomeClientThrew) =>
               /\ AllClientsReturned
               /\ ResponseText = SuccessText(call.tool, [i \in 1..Len(tasks) |->
                                                             tasks[i].outcome.value])
        /\ (outcome # Pending /\ SomeClientThrew) =>
               /\ ResponseText.kind = "error"
               /\ ResponseText.parts[1] \in ErrorPhrases
               /\ ResponseText.parts[2] = ": "
               /\ \E i \in 1..Len(tasks) :
                      /\ Threw(tasks[i].outcome)
                      /\ SubSeq(ResponseText.parts, 3, Len(ResponseText.parts))
                           = tasks[i].outcome.message

\* a handler answered a timed-out request with an error text
C4_Witness ==
    /\ ToolInvoked /\ IsEnvelope(outcome)
    /\ call.tool = "tokenTerminalTokensSearch"
    /\ tasks[1].resp.listing = TimedOut
    /\ ResponseText.kind = "error"

GeneralSearch == ToolInvoked /\ call.tool = "lunarCrushGeneralSearch"

\* C10 as stated: the general search responds only after both sub-searches
\* have settled, and the failure of one does not discard the result of the
\* other
C10_BothSettleFirst ==
    (GeneralSearch /\ outcome # Pending) =>
        /\ \A i \in 1..2 : tasks[i].outcome # Pending
        /\ \A i \in 1..2 : Returned(tasks[i].outcome) => ResponseText.kind = "json"

\* the sub-search that rejected first, if any
FirstRejected ==
    LET order == SettleOrder(log)
    IN  {order[k] : k \in {k \in 1..Len(order) :
                              /\ Threw(tasks[order[k]].outcome)
                              /\ \A j \in 1..(k - 1) : ~Threw(tasks[order[j]].outcome)}}

\* C10 amended: the two sub-searches are started together and joined by
\* Promise.all: when both succeed the response comes after both and carries
\* both results; when one fails the response comes as soon as the first
\* failure settles, carries only that failure's message, and the result of
\* the other sub-search is discarded
C10_FailFastJoin ==
    GeneralSearch =>
        /\ Len(tasks) = 2
        /\ log[1].ev = "request" /\ log[2].ev = "request"
        /\ outcome = Pending <=> (~SomeClientThrew /\ ~AllClientsReturned)
        /\ (outcome # Pending /\ ~SomeClientThrew) =>
               /\ ResponseText.kind = "json"
               /\ ResponseText.value.tokens = JsonOfRecords(tasks[1].outcome.value)
               /\ ResponseText.value.topics = JsonOfRecords(tasks[2].outcome.value)
        /\ (outcome # Pending /\ SomeClientThrew) =>
               \E i \in FirstRejected :
                   ResponseText = [kind |-> "error",
                                   parts |-> <<"Error performing general LunarCrush search", ": ">>
                                               \o tasks[i].outcome.message]

\* the topic search failed first and was answered with an error; the token
\* search then found a token, which the response does not carry
C10_Witness ==
    /\ GeneralSearch /\ outcome # Pending
    /\ SettleOrder(log) = <<2, 1>>
    /\ Threw(tasks[2].outcome)
    /\ Returned(tasks[1].outcome) /\ Len(tasks[1].outcome.value) > 0
    /\ ResponseText.kind = "error"

-----------------------------------------------------------------------------
(* How many client functions a handler calls (SpecTools) *)

\* the client functions called so far, in the order of the calls
ClientCalls ==
    LET requests == SelectSeq(log, LAMBDA e : e.ev = "request")
    IN  [k \in 1..Len(requests) |-> requests[k].target]

\* C11 as stated: every handler has called exactly one client function when
\* it builds its response
C11_ExactlyOneClientCall ==
    (ToolInvoked /\ outcome # Pending) => Len(ClientCalls) = 1

\* C11 amended: every handler has called exactly one client function when it
\* builds its response, except the general search, which has called exactly
\* two, searchTokens and searchTopics, once each
C11_OneClientCallButGeneral ==
    (ToolInvoked /\ outcome # Pending) =>
        CASE call.tool = "lunarCrushGeneralSearch" ->
                 ClientCalls = <<"searchTokens", "searchTopics">>
          [] call.tool = "lunarCrushTokensSearch" -> ClientCalls = <<"searchTokens">>
          [] call.tool = "lunarCrushTopicsSearch" -> ClientCalls = <<"searchTopics">>
          [] call.tool = "lunarCrushTopicDetails" -> ClientCalls = <<"getTopicDetails">>
          [] call.tool = "lunarCrushTopicPosts" -> ClientCalls = <<"getTopicPosts">>
          [] call.tool = "tokenTerminalTokensSearch" -> ClientCalls = <<"searchProjects">>

\* the general search answered with both results after its two client calls
C11_Witness ==
    /\ GeneralSearch /\ outcome # Pending
    /\ Len(ClientCalls) = 2
    /\ ResponseText.kind = "json"

-----------------------------------------------------------------------------
(* The requests one searchProjects call issues (SpecRequests) *)

\* how many requests to an endpoint, for the i-th project, were issued so far
RequestCount(target, i) ==
    Len(SelectSeq(log, LAMBDA e : e.ev = "request" /\ e.target = target /\ e.i = i))

MetricRequestCount ==
    Len(SelectSeq(log, LAMBDA e : e.ev = "request" /\ e.target = "metric"))

\* the listing request has settled
ListingSettled == pc \in {"lookups", "done"}

\* the listing succeeded, is well-formed and could be filtered
ListingUsable == HasListing /\ Searchable(Dataset, SearchedFields("searchProjects"))

\* no request is issued twice: one listing request, then one metric request
\* per surviving project if the listing is usable and none otherwise
NoRequestTwice ==
    /\ RequestCount("listing", 0) = (IF pc = "start" THEN 0 ELSE 1)
    /\ ~ListingSettled => MetricRequestCount = 0
    /\ (ListingSettled /\ ~ListingUsable) => MetricRequestCount = 0
    /\ (ListingSettled /\ ListingUsable) =>
           /\ MetricRequestCount = Len(Survivors)
           /\ \A i \in 1..Len(Survivors) : RequestCount("metric", i) = 1

\* C12: one listing request; one metric request per surviving project, at
\* most 10, only if the listing succeeded and is well-formed; no request is
\* ever issued a second time
C12_NoRetryAtMostTen ==
    call.op = "searchProjects" =>
        /\ NoRequestTwice
        /\ MetricRequestCount <= MaxProjectLimit

-----------------------------------------------------------------------------
(* Every invocation ends in a response (SpecLive) *)

SettledCount(i) == Len(SelectSeq(log, LAMBDA e : e.ev = "settled" /\ e.i = i))

\* every remote call has ended at most once, and a call that has ended
\* completed with an HTTP response or was rejected (timeout, transport)
EndsOnce ==
    \A i \in 1..Len(tasks) :
        /\ SettledCount(i) = (IF tasks[i].outcome = Pending THEN 0 ELSE 1)
        /\ tasks[i].outcome # Pending =>
               \/ ToolDispatched /\ tasks[i].resp.listing.kind \in {"http", "rejected"}
               \/ SearchDispatched /\ tasks[i].resp.kind \in {"http", "rejected"}

AllLookupsSettled ==
    /\ SearchDispatched /\ ListingSettled
    /\ \A i \in 1..Len(tasks) : tasks[i].outcome # Pending

\* C13: when every request in flight eventually responds or times out,
\* every dispatched tool invocation eventually returns a response envelope
\* and every searchProjects call eventually ends; each remote call ends
\* once, and searchProjects has returned once all its lookups have settled
C13_EventuallyResponds ==
    /\ [](EndsOnce)
    /\ ToolDispatched ~> (ToolDispatched /\ IsEnvelope(outcome))
    /\ SearchDispatched ~> (pc = "done" /\ outcome # Pending)
    /\ []((AllLookupsSettled /\ ListingUsable) => Returned(outcome))
    /\ []((AllLookupsSettled /\ ~ListingUsable) => Threw(outcome))

\* searchProjects returned after one lookup succeeded and another timed out
C13_Witness ==
    /\ SearchDispatched /\ pc = "done" /\ Returned(outcome)
    /\ \E i, j \in 1..Len(tasks) :
           /\ tasks[i].resp = TimedOut
           /\ tasks[j].resp.kind = "http" /\ Ok(tasks[j].resp)

-----------------------------------------------------------------------------
(* Failures of searchTokens (SpecSearch) *)

TokensDone == pc = "done" /\ call.op = "searchTokens"

\* the one error searchTokens raises for a fault with the given message
Normalized(message) ==
    [tag |-> "throw", message |-> <<"Error searching LunarCrush tokens", ": ">> \o message]

\* the HTTP status is not successful
BadStatus == remote.listing.kind = "http" /\ ~(remote.listing.status \in 200..299)

\* the body was decoded to an object whose data field is not a sequence
DataNotSequence ==
    /\ remote.listing.kind = "http" /\ remote.listing.status \in 200..299
    /\ remote.listing.body.kind = "object"
    /\ remote.listing.body.data.t # "array"

\* C14: searchTokens fails with a remote error when the HTTP status is not
\* successful and with a format error when the data field is not a
\* sequence; every failure, a timeout included, is one normalized error
\* whose message ends with the message of the original fault, and carries
\* no records
C14_NormalizedFailure ==
    TokensDone =>
        /\ BadStatus =>
               outcome = Normalized(<<"LunarCrush", " API error: ",
                                      ToString(remote.listing.status), " ",
                                      remote.listing.statusText>>)
        /\ DataNotSequence =>
               outcome = Normalized(<<"Invalid response format from ", "LunarCrush", " API">>)
        /\ remote.listing.kind = "rejected" => outcome = Normalized(remote.listing.message)
        /\ ~HasListing => Threw(outcome)
        /\ Threw(outcome) =>
               /\ DOMAIN outcome = {"tag", "message"}
               /\ Len(outcome.message) > 2
               /\ SubSeq(outcome.message, 1, 2) = <<"Error searching LunarCrush tokens", ": ">>
        /\ outcome # Pending

\* searchTokens failed on a response with status 500
C14_Witness ==
    /\ TokensDone /\ BadStatus
    /\ remote.listing.status = 500
    /\ Threw(outcome)

====
